---- MODULE Spec2Model ----
(***************************************************************************)
(* A model of the CHIP-8 interpreter of src/src/lib.rs: the builder, the   *)
(* single-step `run` (fetch, decode, dispatch) and every opcode handler.    *)
(* The register file, the stack and the display are functions over 0-based  *)
(* index ranges, as in the source.  Memory and program images are sequences *)
(* of bytes: the byte at address a is element a + 1.                        *)
(***************************************************************************)
EXTENDS Integers, Sequences, FiniteSets, TLC

\* ------------------------------------------------------------------------
\* Program constants
\* ------------------------------------------------------------------------
MemSize == 4096
NumRegisters == 16
StackSize == 16
ScreenRows == 32
ScreenCols == 64
ProgramStart == 200
GlyphBytes == 80

\* The number of `None` results after which the modelled caller stops
\* invoking `run` (the CPU itself keeps no halted flag).
MaxHalts == 2

Byte == 0..255

\* ------------------------------------------------------------------------
\* Bit arithmetic on unsigned integers
\* ------------------------------------------------------------------------
RECURSIVE BitAnd(_, _)
BitAnd(a, b) ==
    IF a = 0 \/ b = 0 THEN 0
    ELSE (a % 2) * (b % 2) + 2 * BitAnd(a \div 2, b \div 2)

RECURSIVE BitOr(_, _)
BitOr(a, b) ==
    IF a = 0 THEN b
    ELSE IF b = 0 THEN a
    ELSE (IF a % 2 = 1 \/ b % 2 = 1 THEN 1 ELSE 0) + 2 * BitOr(a \div 2, b \div 2)

RECURSIVE BitXor(_, _)
BitXor(a, b) ==
    IF a = 0 THEN b
    ELSE IF b = 0 THEN a
    ELSE ((a + b) % 2) + 2 * BitXor(a \div 2, b \div 2)

\* format!("{:b}", byte): the binary digits of byte, most significant first,
\* without leading zeros (a single "0" for zero).
RECURSIVE format_b(_)
format_b(byte) ==
    IF byte < 2 THEN << (IF byte = 1 THEN "1" ELSE "0") >>
    ELSE Append(format_b(byte \div 2), IF byte % 2 = 1 THEN "1" ELSE "0")

\* ------------------------------------------------------------------------
\* Outcomes of one call of `run`
\* ------------------------------------------------------------------------
Continue == "Some(())"
Halted == "None"
StackOverflow == "panic: Stack overflow"
StackUnderflow == "panic: Stack underflow"
TodoOpcode == "panic: not yet implemented: opcode"
IndexPanic == "panic: index out of bounds"
AddOverflow == "panic: attempt to add with overflow"
NoPanic == "none"
Panics == {StackOverflow, StackUnderflow, TodoOpcode, IndexPanic, AddOverflow}

\* ------------------------------------------------------------------------
\* CPUBuilder
\* ------------------------------------------------------------------------
None == [some |-> FALSE]
Some(v) == [some |-> TRUE, value |-> v]

Zeros(n) == [k \in 0..(n - 1) |-> 0]

\* [0; n] as a sequence of bytes.
ZeroBytes(n) == [k \in 1..n |-> 0]

\* [0; 4096]
ZeroMemory == ZeroBytes(MemSize)

\* The byte of the memory or image `mem` at address `a`.
At(mem, a) == mem[a + 1]

\* `mem` with byte `v` stored at address `a`.
Store(mem, a, v) == [mem EXCEPT ![a + 1] = v]

unwrap_or(opt, default) == IF opt.some THEN opt.value ELSE default

\* The reserved hexadecimal digit sprites, 5 bytes per digit.
Glyphs ==
    << \hF0, \h90, \h90, \h90, \hF0,
       \h20, \h60, \h20, \h20, \h70,
       \hF0, \h10, \hF0, \h80, \hF0,
       \hF0, \h10, \hF0, \h10, \hF0,
       \h90, \h90, \hF0, \h10, \h10,
       \hF0, \h80, \hF0, \h10, \hF0,
       \hF0, \h80, \hF0, \h90, \hF0,
       \hF0, \h10, \h20, \h40, \h40,
       \hF0, \h90, \hF0, \h90, \hF0,
       \hF0, \h90, \hF0, \h10, \hF0,
       \hF0, \h90, \hF0, \h90, \h90,
       \hE0, \h90, \hE0, \h90, \hE0,
       \hF0, \h80, \h80, \h80, \hF0,
       \hE0, \h90, \h90, \h90, \hE0,
       \hF0, \h80, \hF0, \h80, \hF0,
       \hF0, \h80, \hF0, \h80, \h80 >>

\* Mutant: the supplied image is used as the memory, as it is.
get_memory_unrelocated(self_memory) == unwrap_or(self_memory, ZeroMemory)

\* Mutant: the copy loop reads image[i - 201].
get_memory_off_by_one(self_memory) ==
    LET image == unwrap_or(self_memory, ZeroMemory)
    IN  Glyphs \o ZeroBytes(ProgramStart + 1 - GlyphBytes)
               \o SubSeq(image, 1, MemSize - ProgramStart - 1)

\* Memory starts as zeros, the glyphs go to 0..79, and the loop copies
\* image[i - 200] to memory[i] for i in 200..4096.
get_memory(self_memory) ==
    LET image == unwrap_or(self_memory, ZeroMemory)
    IN  Glyphs \o ZeroBytes(ProgramStart - GlyphBytes)
               \o SubSeq(image, 1, MemSize - ProgramStart)

build(self) ==
    [ program_counter |-> ProgramStart,
      registers       |-> unwrap_or(self.registers, Zeros(NumRegisters)),
      memory          |-> get_memory(self.memory),
      stack           |-> Zeros(StackSize),
      stack_pointer   |-> 0,
      i               |-> 0 ]

\* ------------------------------------------------------------------------
\* Handlers.  Each takes the CPU record and returns [cpu, panic].
\* ------------------------------------------------------------------------
Ok(c) == [cpu |-> c, panic |-> NoPanic]
Panic(c, msg) == [cpu |-> c, panic |-> msg]

\* Mutant: the two bytes are concatenated low byte first.
read_opcode_little_endian(c) ==
    LET p == c.program_counter
        byte1 == At(c.memory, p)
        byte2 == At(c.memory, p + 1)
    IN  byte2 * 256 + byte1

read_opcode(c) ==
    LET p == c.program_counter
        byte1 == At(c.memory, p)
        byte2 == At(c.memory, p + 1)
    IN  byte1 * 256 + byte2

jump(c, addr) == Ok([c EXCEPT !.program_counter = addr])

jump_reg(c, addr) == Ok([c EXCEPT !.program_counter = c.registers[0] + addr])

\* Mutant: the overflow check is `>` instead of `>=`, so the store indexes
\* past the stack.
call_check_gt(c, addr) ==
    IF c.stack_pointer > StackSize
    THEN Panic(c, StackOverflow)
    ELSE IF c.stack_pointer >= StackSize
    THEN Panic(c, IndexPanic)
    ELSE Ok([c EXCEPT !.stack[c.stack_pointer] = c.program_counter % 65536,
                      !.stack_pointer = c.stack_pointer + 1,
                      !.program_counter = addr])

\* Mutant: stack_pointer is incremented before the overflow check.
call_increment_first(c, addr) ==
    IF c.stack_pointer + 1 > StackSize
    THEN Panic([c EXCEPT !.stack_pointer = c.stack_pointer + 1], StackOverflow)
    ELSE Ok([c EXCEPT !.stack[c.stack_pointer] = c.program_counter % 65536,
                      !.stack_pointer = c.stack_pointer + 1,
                      !.program_counter = addr])

call(c, addr) ==
    IF c.stack_pointer >= StackSize
    THEN Panic(c, StackOverflow)
    ELSE Ok([c EXCEPT !.stack[c.stack_pointer] = c.program_counter % 65536,
                      !.stack_pointer = c.stack_pointer + 1,
                      !.program_counter = addr])

\* Mutant: the return resumes after the oldest pending call.
ret_pops_oldest(c) ==
    IF c.stack_pointer = 0
    THEN Panic(c, StackUnderflow)
    ELSE Ok([c EXCEPT !.stack_pointer = c.stack_pointer - 1,
                      !.program_counter = c.stack[0]])

\* Mutant: the slot popped is zeroed.
ret_clears_slot(c) ==
    IF c.stack_pointer = 0
    THEN Panic(c, StackUnderflow)
    ELSE Ok([c EXCEPT !.stack_pointer = c.stack_pointer - 1,
                      !.program_counter = c.stack[c.stack_pointer - 1],
                      !.stack[c.stack_pointer - 1] = 0])

\* Mutant: the return address is read before stack_pointer is decremented.
ret_read_before_decrement(c) ==
    IF c.stack_pointer = 0
    THEN Panic(c, StackUnderflow)
    ELSE IF c.stack_pointer >= StackSize
    THEN Panic(c, IndexPanic)
    ELSE Ok([c EXCEPT !.stack_pointer = c.stack_pointer - 1,
                      !.program_counter = c.stack[c.stack_pointer]])

ret(c) ==
    IF c.stack_pointer = 0
    THEN Panic(c, StackUnderflow)
    ELSE Ok([c EXCEPT !.stack_pointer = c.stack_pointer - 1,
                      !.program_counter = c.stack[c.stack_pointer - 1]])

\* Mutant: the flag is set on a carry and never cleared.
add_xy_flag_never_cleared(c, x, y) ==
    LET arg1 == c.registers[x]
        arg2 == c.registers[y]
        val == (arg1 + arg2) % 256
        overflow == arg1 + arg2 > 255
    IN  Ok([c EXCEPT !.registers =
                [[c.registers EXCEPT ![x] = val]
                    EXCEPT ![15] = IF overflow THEN 1 ELSE c.registers[15]]])

\* The flag is written after registers[x], so it wins when x = 0xF.
add_xy(c, x, y) ==
    LET arg1 == c.registers[x]
        arg2 == c.registers[y]
        val == (arg1 + arg2) % 256
        overflow == arg1 + arg2 > 255
    IN  Ok([c EXCEPT !.registers =
                [[c.registers EXCEPT ![x] = val] EXCEPT ![15] = IF overflow THEN 1 ELSE 0]])

\* Mutant: the flag reports a borrow instead of its absence.
sub_xy_flag_is_borrow(c, x, y) ==
    LET arg1 == c.registers[x]
        arg2 == c.registers[y]
        val == (arg1 - arg2) % 256
        overflow == arg1 < arg2
    IN  Ok([c EXCEPT !.registers =
                [[c.registers EXCEPT ![x] = val] EXCEPT ![15] = IF overflow THEN 1 ELSE 0]])

sub_xy(c, x, y) ==
    LET arg1 == c.registers[x]
        arg2 == c.registers[y]
        val == (arg1 - arg2) % 256
        overflow == arg1 < arg2
    IN  Ok([c EXCEPT !.registers =
                [[c.registers EXCEPT ![x] = val] EXCEPT ![15] = IF overflow THEN 0 ELSE 1]])

sub_n(c, x, y) ==
    LET arg1 == c.registers[x]
        arg2 == c.registers[y]
        val == (arg2 - arg1) % 256
        overflow == arg2 < arg1
    IN  Ok([c EXCEPT !.registers =
                [[c.registers EXCEPT ![x] = val] EXCEPT ![15] = IF overflow THEN 0 ELSE 1]])

skip_equal(c, x, nn) ==
    IF c.registers[x] = nn % 256
    THEN Ok([c EXCEPT !.program_counter = c.program_counter + 2])
    ELSE Ok(c)

\* Mutant: the comparison of skip_equal.
skip_not_equal_as_equal(c, x, nn) ==
    IF c.registers[x] = nn % 256
    THEN Ok([c EXCEPT !.program_counter = c.program_counter + 2])
    ELSE Ok(c)

skip_not_equal(c, x, nn) ==
    IF c.registers[x] # nn % 256
    THEN Ok([c EXCEPT !.program_counter = c.program_counter + 2])
    ELSE Ok(c)

skip_equal_reg(c, x, y) ==
    IF c.registers[x] = c.registers[y]
    THEN Ok([c EXCEPT !.program_counter = c.program_counter + 2])
    ELSE Ok(c)

skip_not_equal_reg(c, x, y) ==
    IF c.registers[x] # c.registers[y]
    THEN Ok([c EXCEPT !.program_counter = c.program_counter + 2])
    ELSE Ok(c)

set_register(c, x, nn) == Ok([c EXCEPT !.registers[x] = nn % 256])

\* `+=` on u8: panics when overflow checks are compiled in (debug profile),
\* wraps otherwise (release profile).
add(c, x, nn, overflow_checks) ==
    LET sum == c.registers[x] + (nn % 256)
    IN  IF sum > 255 /\ overflow_checks
        THEN Panic(c, AddOverflow)
        ELSE Ok([c EXCEPT !.registers[x] = sum % 256])

assign(c, x, y) == Ok([c EXCEPT !.registers[x] = c.registers[y]])

or(c, x, y) == Ok([c EXCEPT !.registers[x] = BitOr(c.registers[x], c.registers[y])])

and(c, x, y) == Ok([c EXCEPT !.registers[x] = BitAnd(c.registers[x], c.registers[y])])

xor(c, x, y) == Ok([c EXCEPT !.registers[x] = BitXor(c.registers[x], c.registers[y])])

\* The flag is written first, then registers[x] is shifted in place, so with
\* x = 0xF the shifted flag value is what remains.
shift_right(c, x) ==
    LET least_sig == c.registers[x] % 2
        r1 == [c.registers EXCEPT ![15] = least_sig]
    IN  Ok([c EXCEPT !.registers = [r1 EXCEPT ![x] = r1[x] \div 2]])

shift_left(c, x) ==
    LET most_sig == BitAnd(c.registers[x], 128)
        r1 == [c.registers EXCEPT ![15] = most_sig \div 128]
    IN  Ok([c EXCEPT !.registers = [r1 EXCEPT ![x] = (r1[x] * 2) % 256]])

set_i(c, addr) == Ok([c EXCEPT !.i = addr])

\* `+=` on u16: panics on overflow with overflow checks, wraps without.
set_i_reg(c, x, overflow_checks) ==
    LET sum == c.i + c.registers[x]
    IN  IF sum > 65535 /\ overflow_checks
        THEN Panic(c, AddOverflow)
        ELSE Ok([c EXCEPT !.i = sum % 65536])

\* rng is the value of `rng.gen_range(1.0..256.0) as u16`, in 1..255.
rand(c, nn, rng) == Ok([c EXCEPT !.registers[0] = BitAnd(nn, rng) % 256])

\* The loop stores register after register and panics at the first address
\* past the end of memory, keeping the stores already made.
RECURSIVE reg_dump_from(_, _, _)
reg_dump_from(c, x, ind) ==
    IF ind > x THEN Ok(c)
    ELSE IF c.i + ind >= MemSize THEN Panic(c, IndexPanic)
    ELSE reg_dump_from([c EXCEPT !.memory = Store(c.memory, c.i + ind, c.registers[ind])],
                       x, ind + 1)

reg_dump(c, x) == reg_dump_from(c, x, 0)

RECURSIVE reg_load_from(_, _, _)
reg_load_from(c, x, ind) ==
    IF ind > x THEN Ok(c)
    ELSE IF c.i + ind >= MemSize THEN Panic(c, IndexPanic)
    ELSE reg_load_from([c EXCEPT !.registers[ind] = At(c.memory, c.i + ind)], x, ind + 1)

\* Mutant: the loop runs over 0..x instead of 0..=x.
reg_load_exclusive(c, x) == reg_load_from(c, x - 1, 0)

reg_load(c, x) == reg_load_from(c, x, 0)

\* Mutant: the tens digit is not reduced modulo 10.
bcd_tens_unreduced(c, x) ==
    LET hundreds == c.registers[x] \div 100
        tens == c.registers[x] \div 10
        ones == c.registers[x] % 10
        m0 == c.memory
    IN  IF c.i + 0 >= MemSize THEN Panic(c, IndexPanic)
        ELSE LET m1 == Store(m0, c.i + 0, hundreds) IN
        IF c.i + 1 >= MemSize THEN Panic([c EXCEPT !.memory = m1], IndexPanic)
        ELSE LET m2 == Store(m1, c.i + 1, tens) IN
        IF c.i + 2 >= MemSize THEN Panic([c EXCEPT !.memory = m2], IndexPanic)
        ELSE Ok([c EXCEPT !.memory = Store(m2, c.i + 2, ones)])

bcd(c, x) ==
    LET hundreds == c.registers[x] \div 100
        tens == (c.registers[x] \div 10) % 10
        ones == c.registers[x] % 10
        m0 == c.memory
    IN  IF c.i + 0 >= MemSize THEN Panic(c, IndexPanic)
        ELSE LET m1 == Store(m0, c.i + 0, hundreds) IN
        IF c.i + 1 >= MemSize THEN Panic([c EXCEPT !.memory = m1], IndexPanic)
        ELSE LET m2 == Store(m1, c.i + 1, tens) IN
        IF c.i + 2 >= MemSize THEN Panic([c EXCEPT !.memory = m2], IndexPanic)
        ELSE Ok([c EXCEPT !.memory = Store(m2, c.i + 2, ones)])

\* ------------------------------------------------------------------------
\* Display
\* ------------------------------------------------------------------------
\* The bit strings of the d sprite bytes at memory[i .. i+d); the read of a
\* byte past the end of memory panics before anything is drawn.
get_display_bits(c, d) ==
    IF d > 0 /\ c.i + (d - 1) >= MemSize
    THEN [bits |-> << >>, panic |-> IndexPanic]
    ELSE [bits |-> [k \in 1..d |-> format_b(At(c.memory, c.i + (k - 1)))], panic |-> NoPanic]

\* Mutant: a set bit lights the pixel instead of toggling it.
RECURSIVE draw_chars_or(_, _, _, _, _, _)
draw_chars_or(scr, flip_vf, row, x_coord, byte_string, char_ind) ==
    IF char_ind > Len(byte_string)
    THEN [screen |-> scr, flip_vf |-> flip_vf, panic |-> NoPanic]
    ELSE LET col == x_coord + (char_ind - 1) IN
         IF row >= ScreenRows \/ col >= ScreenCols
         THEN [screen |-> scr, flip_vf |-> flip_vf, panic |-> IndexPanic]
         ELSE LET previous == scr[row][col]
                  now == byte_string[char_ind] = "1" \/ previous
              IN  draw_chars_or([scr EXCEPT ![row][col] = now],
                                flip_vf \/ (previous /\ ~now),
                                row, x_coord, byte_string, char_ind + 1)

\* The inner loop of draw over the characters of one bit string; char_ind
\* is the 1-based position in the string, its column offset is char_ind - 1.
RECURSIVE draw_chars(_, _, _, _, _, _)
draw_chars(scr, flip_vf, row, x_coord, byte_string, char_ind) ==
    IF char_ind > Len(byte_string)
    THEN [screen |-> scr, flip_vf |-> flip_vf, panic |-> NoPanic]
    ELSE LET col == x_coord + (char_ind - 1) IN
         IF row >= ScreenRows \/ col >= ScreenCols
         THEN [screen |-> scr, flip_vf |-> flip_vf, panic |-> IndexPanic]
         ELSE LET previous == scr[row][col]
                  now == IF byte_string[char_ind] = "1" THEN ~previous ELSE previous
              IN  draw_chars([scr EXCEPT ![row][col] = now],
                             flip_vf \/ (previous /\ ~now),
                             row, x_coord, byte_string, char_ind + 1)

\* The outer loop of draw over the bit strings; byte_string_ind is 1-based,
\* its row offset is byte_string_ind - 1.
RECURSIVE draw_rows(_, _, _, _, _, _)
draw_rows(scr, flip_vf, bits, x_coord, y_coord, byte_string_ind) ==
    IF byte_string_ind > Len(bits)
    THEN [screen |-> scr, flip_vf |-> flip_vf, panic |-> NoPanic]
    ELSE LET r == draw_chars(scr, flip_vf, y_coord + (byte_string_ind - 1),
                             x_coord, bits[byte_string_ind], 1)
         IN  IF r.panic # NoPanic THEN r
             ELSE draw_rows(r.screen, r.flip_vf, bits, x_coord, y_coord,
                            byte_string_ind + 1)

\* Returns [cpu, screen, panic].
draw(c, x, y, d, scr) ==
    LET got == get_display_bits(c, d) IN
    IF got.panic # NoPanic
    THEN [cpu |-> c, screen |-> scr, panic |-> got.panic]
    ELSE LET x_coord == c.registers[x]
             y_coord == c.registers[y]
             r == draw_rows(scr, FALSE, got.bits, x_coord, y_coord, 1)
         IN  IF r.panic # NoPanic
             THEN [cpu |-> c, screen |-> r.screen, panic |-> r.panic]
             ELSE [cpu |-> [c EXCEPT !.registers[15] = IF r.flip_vf THEN 1 ELSE 0],
                   screen |-> r.screen, panic |-> NoPanic]

\* ------------------------------------------------------------------------
\* run: one fetch-decode-execute cycle
\* ------------------------------------------------------------------------
\* Mutant: the halt arm matches on the two high nibbles only.
decode_halt_ignores_low_byte(c, x, y, d) ==
    IF c = 0 /\ x = 0 THEN "halt"
    ELSE IF c = 0 /\ x = 0 /\ y = 14 /\ d = 14 THEN "ret"
    ELSE IF c = 1 THEN "jump"
    ELSE IF c = 2 THEN "call"
    ELSE IF c = 3 THEN "skip_equal"
    ELSE IF c = 4 THEN "skip_not_equal"
    ELSE IF c = 5 THEN "skip_equal_reg"
    ELSE IF c = 6 THEN "set_register"
    ELSE IF c = 7 THEN "add"
    ELSE IF c = 8 /\ d = 0 THEN "assign"
    ELSE IF c = 8 /\ d = 1 THEN "or"
    ELSE IF c = 8 /\ d = 2 THEN "and"
    ELSE IF c = 8 /\ d = 3 THEN "xor"
    ELSE IF c = 8 /\ d = 4 THEN "add_xy"
    ELSE IF c = 8 /\ d = 5 THEN "sub_xy"
    ELSE IF c = 8 /\ d = 6 THEN "shift_right"
    ELSE IF c = 8 /\ d = 7 THEN "sub_n"
    ELSE IF c = 8 /\ d = 14 THEN "shift_left"
    ELSE IF c = 9 /\ d = 0 THEN "skip_not_equal_reg"
    ELSE IF c = 10 THEN "set_i"
    ELSE IF c = 11 THEN "jump_reg"
    ELSE IF c = 12 THEN "rand"
    ELSE IF c = 15 /\ y = 1 /\ d = 14 THEN "set_i_reg"
    ELSE IF c = 15 /\ y = 3 /\ d = 3 THEN "bcd"
    ELSE IF c = 15 /\ y = 5 /\ d = 5 THEN "reg_dump"
    ELSE IF c = 15 /\ y = 6 /\ d = 5 THEN "reg_load"
    ELSE IF c = 13 THEN "draw"
    ELSE "todo"

\* The match of run on the nibbles (c, x, y, d): the name of the arm taken.
decode(c, x, y, d) ==
    IF c = 0 /\ x = 0 /\ y = 0 /\ d = 0 THEN "halt"
    ELSE IF c = 0 /\ x = 0 /\ y = 14 /\ d = 14 THEN "ret"
    ELSE IF c = 1 THEN "jump"
    ELSE IF c = 2 THEN "call"
    ELSE IF c = 3 THEN "skip_equal"
    ELSE IF c = 4 THEN "skip_not_equal"
    ELSE IF c = 5 THEN "skip_equal_reg"
    ELSE IF c = 6 THEN "set_register"
    ELSE IF c = 7 THEN "add"
    ELSE IF c = 8 /\ d = 0 THEN "assign"
    ELSE IF c = 8 /\ d = 1 THEN "or"
    ELSE IF c = 8 /\ d = 2 THEN "and"
    ELSE IF c = 8 /\ d = 3 THEN "xor"
    ELSE IF c = 8 /\ d = 4 THEN "add_xy"
    ELSE IF c = 8 /\ d = 5 THEN "sub_xy"
    ELSE IF c = 8 /\ d = 6 THEN "shift_right"
    ELSE IF c = 8 /\ d = 7 THEN "sub_n"
    ELSE IF c = 8 /\ d = 14 THEN "shift_left"
    ELSE IF c = 9 /\ d = 0 THEN "skip_not_equal_reg"
    ELSE IF c = 10 THEN "set_i"
    ELSE IF c = 11 THEN "jump_reg"
    ELSE IF c = 12 THEN "rand"
    ELSE IF c = 15 /\ y = 1 /\ d = 14 THEN "set_i_reg"
    ELSE IF c = 15 /\ y = 3 /\ d = 3 THEN "bcd"
    ELSE IF c = 15 /\ y = 5 /\ d = 5 THEN "reg_dump"
    ELSE IF c = 15 /\ y = 6 /\ d = 5 THEN "reg_load"
    ELSE IF c = 13 THEN "draw"
    ELSE "todo"

WithScreen(r, scr) == [cpu |-> r.cpu, screen |-> scr, panic |-> r.panic]

\* The arm `arm` of the match, run on the CPU after the fetch.
execute(arm, c1, scr, x, y, d, nnn, nn, rng, overflow_checks) ==
    CASE arm = "ret" -> WithScreen(ret(c1), scr)
      [] arm = "jump" -> WithScreen(jump(c1, nnn), scr)
      [] arm = "call" -> WithScreen(call(c1, nnn), scr)
      [] arm = "skip_equal" -> WithScreen(skip_equal(c1, x, nn), scr)
      [] arm = "skip_not_equal" -> WithScreen(skip_not_equal(c1, x, nn), scr)
      [] arm = "skip_equal_reg" -> WithScreen(skip_equal_reg(c1, x, y), scr)
      [] arm = "set_register" -> WithScreen(set_register(c1, x, nn), scr)
      [] arm = "add" -> WithScreen(add(c1, x, nn, overflow_checks), scr)
      [] arm = "assign" -> WithScreen(assign(c1, x, y), scr)
      [] arm = "or" -> WithScreen(or(c1, x, y), scr)
      [] arm = "and" -> WithScreen(and(c1, x, y), scr)
      [] arm = "xor" -> WithScreen(xor(c1, x, y), scr)
      [] arm = "add_xy" -> WithScreen(add_xy(c1, x, y), scr)
      [] arm = "sub_xy" -> WithScreen(sub_xy(c1, x, y), scr)
      [] arm = "shift_right" -> WithScreen(shift_right(c1, x), scr)
      [] arm = "sub_n" -> WithScreen(sub_n(c1, x, y), scr)
      [] arm = "shift_left" -> WithScreen(shift_left(c1, x), scr)
      [] arm = "skip_not_equal_reg" -> WithScreen(skip_not_equal_reg(c1, x, y), scr)
      [] arm = "set_i" -> WithScreen(set_i(c1, nnn), scr)
      [] arm = "jump_reg" -> WithScreen(jump_reg(c1, nnn), scr)
      [] arm = "rand" -> WithScreen(rand(c1, nn, rng), scr)
      [] arm = "set_i_reg" -> WithScreen(set_i_reg(c1, x, overflow_checks), scr)
      [] arm = "bcd" -> WithScreen(bcd(c1, x), scr)
      [] arm = "reg_dump" -> WithScreen(reg_dump(c1, x), scr)
      [] arm = "reg_load" -> WithScreen(reg_load(c1, x), scr)
      [] arm = "draw" -> draw(c1, x, y, d, scr)
      [] arm = "todo" -> [cpu |-> c1, screen |-> scr, panic |-> TodoOpcode]

\* Returns [cpu, screen, result, opcode, arm]: result is Continue, Halted or
\* the panic that ended the call; opcode is -1 when the fetch itself panics.
run(c0, scr, rng, overflow_checks) ==
    IF c0.program_counter + 1 >= MemSize
    THEN [cpu |-> c0, screen |-> scr, result |-> IndexPanic,
          opcode |-> -1, arm |-> "fetch"]
    ELSE LET opcode == read_opcode(c0)
             c1 == [c0 EXCEPT !.program_counter = c0.program_counter + 2]
             c == opcode \div 4096
             x == (opcode \div 256) % 16
             y == (opcode \div 16) % 16
             d == opcode % 16
             nnn == opcode % 4096
             nn == opcode % 256
             arm == decode(c, x, y, d)
         IN  IF arm = "halt"
             THEN [cpu |-> c1, screen |-> scr, result |-> Halted,
                   opcode |-> opcode, arm |-> arm]
             ELSE LET r == execute(arm, c1, scr, x, y, d, nnn, nn, rng, overflow_checks)
                  IN  [cpu |-> r.cpu, screen |-> r.screen,
                       result |-> IF r.panic = NoPanic THEN Continue ELSE r.panic,
                       opcode |-> opcode, arm |-> arm]

\* ------------------------------------------------------------------------
\* Builder inputs: register overrides and program images
\* ------------------------------------------------------------------------
\* `img` after `img[o] = hi; img[o + 1] = lo;` for each <<o, word>> of
\* `writes`, hi and lo the high and low byte of the word.
RECURSIVE StoreWords(_, _)
StoreWords(img, writes) ==
    IF writes = << >> THEN img
    ELSE LET o == Head(writes)[1]
             w == Head(writes)[2]
         IN  StoreWords(Store(Store(img, o, w \div 256), o + 1, w % 256), Tail(writes))

\* A [Byte; 4096] image: zeros, then the words of `writes` stored.
Image(writes) == StoreWords(ZeroMemory, writes)

\* A [Byte; 16] register array holding `vals` and zero elsewhere.
RegisterArray(vals) ==
    [k \in 0..(NumRegisters - 1) |-> IF k \in DOMAIN vals THEN vals[k] ELSE 0]

\* The example of the crate documentation.
DocRegisters == (0 :> 5) @@ (1 :> 10)
DocProgram ==
    << <<0, \h2100>>, <<2, \h0000>>, <<256, \h8014>>, <<258, \h00EE>> >>

\* Recursion to the depth the initial V0 leaves room for, then a call that
\* is returned from at once at every depth on the way back:
\*   200: V0 += 1      202: skip if V0 = 17    204: call 200
\*   206: call 210     208: ret                210: ret
NestProgram ==
    << <<0, \h7001>>, <<2, \h3011>>, <<4, \h20C8>>,
       <<6, \h20D2>>, <<8, \h00EE>>, <<10, \h00EE>> >>

\* Register overrides that exercise carries, borrows and both flag values.
MixedRegisters == (0 :> 128) @@ (1 :> 255) @@ (2 :> 3) @@ (15 :> 7)

\* First words of the two-word programs: every arm of the decoder,
\* addresses inside and at the end of memory, and words no arm matches.
Words ==
    { \h0000, \h00EE, \h00E0, \h0001,
      \h10C8, \h10CA, \h1FFF,
      \h20C8, \h20CA, \h2FFF,
      \h3080, \h4080, \h5010, \h5011, \h5120, \h9010, \h9011, \h9120,
      \h60FF, \h6F07, \h7001, \h70FF,
      \h8010, \h8011, \h8012, \h8013, \h8014, \h8015, \h8016, \h8017,
      \h801E, \h8018, \h8F06, \h8F0E,
      \hA000, \hAFFE, \hB0C8, \hBFFF, \hC0FF,
      \hD015, \hD21F, \hE09E,
      \hF01E, \hF133, \hF155, \hF165, \hF007 }

\* Second words of the two-word programs.
SecondWords ==
    { \h0000, \h00EE, \h10C8, \h60FF, \h8014, \hC0FF,
      \hD015, \hF01E, \hF133, \hF155, \hF165, \hE09E }

\* Register-to-register additions and subtractions with x = y, y = 0xF,
\* x = 0xE, carries and borrows:
\*   200: V1 += V2   202: V0 += VF   204: V0 += V0   206: VE += V1
\*   208: V1 -= V2   20A: VE = V2 - VE   20C: V0 -= VF   20E: V1 = V1 - V1
ArithProgram ==
    << <<0, \h8124>>, <<2, \h80F4>>, <<4, \h8004>>, <<6, \h8E14>>,
       <<8, \h8125>>, <<10, \h8E27>>, <<12, \h80F5>>, <<14, \h8117>> >>

\* Shifts of the flag register itself and of another register:
\*   200: VF = 0x81   202: VF <<= 1   204: VF = 0x81   206: VF >>= 1
\*   208: V1 = 0x81   20A: V1 >>= 1   20C: V1 = 0x81   20E: V1 <<= 1
FlagShiftProgram ==
    << <<0, \h6F81>>, <<2, \h8F0E>>, <<4, \h6F81>>, <<6, \h8F06>>,
       <<8, \h6181>>, <<10, \h8116>>, <<12, \h6181>>, <<14, \h811E>> >>

\* The decimal digits of every value of V1 in turn:
\*   200: I = 0x300   202: V1 += 1   204: bcd V1   206: jump 202
BcdProgram ==
    << <<0, \hA300>>, <<2, \h7101>>, <<4, \hF133>>, <<6, \h10CA>> >>

\* The index register driven past 65535, 4095 + 241 * 255 being 65550:
\*   200: I = 0xFFF   202: V0 = 0xFF   204 .. 222: I += V0, sixteen times
\*   224: V1 += 1     226: skip if V1 = 16     228: jump 204
IndexOverflowProgram ==
    << <<0, \hAFFF>>, <<2, \h60FF>>,
       <<4, \hF01E>>, <<6, \hF01E>>, <<8, \hF01E>>, <<10, \hF01E>>,
       <<12, \hF01E>>, <<14, \hF01E>>, <<16, \hF01E>>, <<18, \hF01E>>,
       <<20, \hF01E>>, <<22, \hF01E>>, <<24, \hF01E>>, <<26, \hF01E>>,
       <<28, \hF01E>>, <<30, \hF01E>>, <<32, \hF01E>>, <<34, \hF01E>>,
       <<36, \h7101>>, <<38, \h3110>>, <<40, \h10CC>> >>

\* All sixteen registers dumped and loaded back, in the middle of memory and
\* in its last sixteen bytes, then a load of fewer registers from the dump:
\*   200: I = 0x300   202: dump V0..VF   204: load V0..VF
\*   206: I = 0xFF0   208: dump V0..VF   20A: load V0..VF
\*   20C: V2 = 0x55   20E: V0 = 0x66     210: load V0..V1
DumpLoadProgram ==
    << <<0, \hA300>>, <<2, \hFF55>>, <<4, \hFF65>>,
       <<6, \hAFF0>>, <<8, \hFF55>>, <<10, \hFF65>>,
       <<12, \h6255>>, <<14, \h6066>>, <<16, \hF165>> >>

\* The glyph of the digit 1 (bytes 0x20, 0x60, 0x20, 0x20, 0x70), drawn at
\* the top left corner:
\*   200: I = 5   202: draw 5 rows at (V0, V1)
GlyphProgram ==
    << <<0, \hA005>>, <<2, \hD015>> >>

\* A sprite drawn on the clear display, then another drawn twice over it:
\*   200: I = 5   202: V0 = 2   204: draw 5 rows at (V0, V1)
\*   206: I = 0   208: V0 = 0   20A: draw 5 rows at (V0, V1)   20C: the same
DrawTwiceProgram ==
    << <<0, \hA005>>, <<2, \h6002>>, <<4, \hD015>>,
       <<6, \hA000>>, <<8, \h6000>>, <<10, \hD015>>, <<12, \hD015>> >>

\* A sprite whose columns reach past the right edge of the display:
\*   200: V0 = 60   202: draw 5 rows at (V0, V1)
EdgeColumnProgram ==
    << <<0, \h603C>>, <<2, \hD015>> >>

\* A sprite whose rows reach past the bottom edge of the display:
\*   200: V1 = 30   202: draw 5 rows at (V0, V1)
EdgeRowProgram ==
    << <<0, \h611E>>, <<2, \hD015>> >>

\* Random numbers asked for with x = 2 and x = 1:
\*   200: rand 0xFF (x = 2)   202: rand 0x0F (x = 1)
RandProgram ==
    << <<0, \hC2FF>>, <<2, \hC10F>> >>

\* A call and a return with i and the registers not zero:
\*   200: I = 0x123   202: call 206   204: halt   206: ret
CallFrameProgram ==
    << <<0, \hA123>>, <<2, \h20CE>>, <<4, \h0000>>, <<6, \h00EE>> >>

\* The image main() builds: five times "set I, move x, draw", a reset of
\* V0 and a jump to 0x01E, and the five sprites at 0x100 .. 0x504.
DemoProgram ==
    << <<0, \hA100>>, <<2, \hD015>>,
       <<4, \hA200>>, <<6, \h6009>>, <<8, \hD015>>,
       <<10, \hA300>>, <<12, \h6012>>, <<14, \hD015>>,
       <<16, \hA400>>, <<18, \h601B>>, <<20, \hD015>>,
       <<22, \hA500>>, <<24, \h6024>>, <<26, \hD015>>,
       <<28, \h6000>>, <<30, \h101E>>,
       <<256, \hFC82>>, <<258, \h8182>>, <<260, \hFC00>>,
       <<512, \hFF81>>, <<514, \hFF84>>, <<516, \h8200>>,
       <<768, \hFF81>>, <<770, \hFF81>>, <<772, \h8100>>,
       <<1024, \h8182>>, <<1026, \hFC82>>, <<1028, \h8100>>,
       <<1280, \hFF08>>, <<1282, \hFF08>>, <<1284, \hFF00>> >>

Inputs ==
    {[registers |-> r, program |-> Some(<< <<0, w0>>, <<2, w1>> >>)] :
        r \in {None, Some(MixedRegisters)}, w0 \in Words, w1 \in SecondWords}
    \cup {[registers |-> r, program |-> None] : r \in {None, Some(MixedRegisters)}}
    \cup {[registers |-> Some(DocRegisters), program |-> Some(DocProgram)]}
    \cup {[registers |-> r, program |-> Some(NestProgram)] : r \in {None, Some((0 :> 1))}}
    \cup {[registers |-> Some(MixedRegisters), program |-> Some(prog)] :
              prog \in {ArithProgram, DumpLoadProgram}}
    \cup {[registers |-> None, program |-> Some(prog)] :
              prog \in {FlagShiftProgram, BcdProgram, GlyphProgram,
                        IndexOverflowProgram, DrawTwiceProgram,
                        EdgeColumnProgram, EdgeRowProgram, DemoProgram}}
    \cup {[registers |-> Some(MixedRegisters), program |-> Some(prog)] :
              prog \in {RandProgram, CallFrameProgram}}

\* CPUBuilder::new(), then .registers(..) and .memory(..) for the overrides
\* the input supplies.
Builder(inp) ==
    [ registers |-> IF inp.registers.some THEN Some(RegisterArray(inp.registers.value)) ELSE None,
      memory    |-> IF inp.program.some THEN Some(Image(inp.program.value)) ELSE None ]

\* Mutant: the range of the generator starts at 0.
RandomBytesFromZero == {0, 1, 85, 170, 255}

\* The values `rng.gen_range(1.0..256.0) as u16` is drawn from in the model.
RandomBytes == {1, 85, 170, 255}

\* ------------------------------------------------------------------------
\* State
\* ------------------------------------------------------------------------
VARIABLES
    program_counter, registers, memory, stack, stack_pointer, i,  \* struct CPU
    screen,            \* the display buffer the caller passes to run
    input,             \* what the builder was given
    overflow_checks,   \* whether the build panics on integer overflow
    result,            \* what the last call of run returned, or its panic
    opcode,            \* the word the last call of run fetched
    arm,               \* the arm of the match the last call of run took
    prev,              \* the CPU fields, screen and arm at the start of the last call
    halts,             \* how many calls of run have returned None
    pending,           \* the addresses after the calls not yet returned from, oldest first
    driver,            \* where Game::run is in its event loop, if it is the caller
    event,             \* the event the loop is handling
    steps,             \* calls of cpu.run made for that event
    rendered           \* whether app.render was called for that event

vars == << program_counter, registers, memory, stack, stack_pointer, i, screen,
           input, overflow_checks, result, opcode, arm, prev, halts, pending,
           driver, event, steps, rendered >>

CPU ==
    [ program_counter |-> program_counter, registers |-> registers,
      memory |-> memory, stack |-> stack, stack_pointer |-> stack_pointer,
      i |-> i ]

Built == "built"

\* [[false; 64]; 32]
ClearScreen ==
    [row \in 0..(ScreenRows - 1) |-> [col \in 0..(ScreenCols - 1) |-> FALSE]]

Snapshot ==
    [ program_counter |-> program_counter, registers |-> registers,
      stack |-> stack, stack_pointer |-> stack_pointer, i |-> i,
      screen |-> screen, arm |-> arm, result |-> result ]

\* The CPU as build() hands it to its caller, for a builder input drawn from
\* `inputs` and either build profile; no call of run made yet.
BuiltFrom(inputs) ==
    \E inp \in inputs, oc \in BOOLEAN :
        LET c == build(Builder(inp)) IN
        /\ input = inp
        /\ overflow_checks = oc
        /\ program_counter = c.program_counter
        /\ registers = c.registers
        /\ memory = c.memory
        /\ stack = c.stack
        /\ stack_pointer = c.stack_pointer
        /\ i = c.i
        /\ screen = ClearScreen
        /\ result = Built
        /\ opcode = -1
        /\ arm = "none"
        /\ prev = [ program_counter |-> c.program_counter, registers |-> c.registers,
                    stack |-> c.stack, stack_pointer |-> c.stack_pointer, i |-> c.i,
                    screen |-> ClearScreen, arm |-> "none", result |-> Built ]
        /\ halts = 0
        /\ pending = << >>

NoDriver == "none"
NoEvent == "none"

\* The caller is any code that calls cpu.run; Game::run is not involved.
Init ==
    /\ BuiltFrom(Inputs)
    /\ driver = NoDriver
    /\ event = NoEvent
    /\ steps = 0
    /\ rendered = FALSE

\* Whether the next call of run reaches the rand arm.
consults_rng ==
    /\ program_counter + 1 < MemSize
    /\ At(memory, program_counter) \div 16 = 12

\* One call of cpu.run(&mut screen).  A panic ends the process; after
\* MaxHalts results of None the caller stops calling.
cpu_run ==
    /\ result \notin Panics
    /\ halts < MaxHalts
    /\ \E rng \in (IF consults_rng THEN RandomBytes ELSE {1}) :
        LET r == run(CPU, screen, rng, overflow_checks) IN
        /\ program_counter' = r.cpu.program_counter
        /\ registers' = r.cpu.registers
        /\ memory' = r.cpu.memory
        /\ stack' = r.cpu.stack
        /\ stack_pointer' = r.cpu.stack_pointer
        /\ i' = r.cpu.i
        /\ screen' = r.screen
        /\ result' = r.result
        /\ opcode' = r.opcode
        /\ arm' = r.arm
        /\ prev' = Snapshot
        /\ halts' = IF r.result = Halted THEN halts + 1 ELSE halts
        /\ pending' = IF r.arm = "call" /\ r.result = Continue
                      THEN Append(pending, program_counter + 2)
                      ELSE IF r.arm = "ret" /\ r.result = Continue
                      THEN SubSeq(pending, 1, Len(pending) - 1)
                      ELSE pending
        /\ UNCHANGED << input, overflow_checks >>

Step ==
    /\ cpu_run
    /\ UNCHANGED << driver, event, steps, rendered >>

Next == Step

Spec == Init /\ [][Next]_vars

\* ------------------------------------------------------------------------
\* Game::run: the event loop of the window, calling cpu.run
\* ------------------------------------------------------------------------
\* What the event loop does not assign itself.
cpu_vars ==
    << program_counter, registers, memory, stack, stack_pointer, i, screen,
       input, overflow_checks, result, opcode, arm, prev, halts, pending >>

\* The CPUs handed to Game::new: the demo of main(), no image at all, and
\* programs that halt after calls, returns and draws.
GameInputs ==
    {[registers |-> None, program |-> None]}
    \cup {[registers |-> Some(DocRegisters), program |-> Some(DocProgram)]}
    \cup {[registers |-> None, program |-> Some(prog)] :
              prog \in {DemoProgram, NestProgram, GlyphProgram, DrawTwiceProgram,
                        FlagShiftProgram}}
    \cup {[registers |-> Some(MixedRegisters), program |-> Some(prog)] :
              prog \in {ArithProgram, CallFrameProgram, RandProgram}}

\* Game::run up to its loop: the window, the clear screen buffer, the event
\* source.
GameInit ==
    /\ BuiltFrom(GameInputs)
    /\ driver = "events_next"
    /\ event = NoEvent
    /\ steps = 0
    /\ rendered = FALSE

\* `while let Some(e) = events.next(&mut window)`: an event that carries
\* render arguments, one that does not, or None, which ends the loop.
EventsNext ==
    /\ driver = "events_next"
    /\ \E e \in {"render", "other", NoEvent} :
        /\ event' = e
        /\ driver' = IF e = NoEvent THEN "exited" ELSE "cpu_run"
    /\ steps' = 0
    /\ rendered' = FALSE
    /\ UNCHANGED cpu_vars

\* Mutant: the result of cpu.run is ignored.
GameRunWithoutBreak ==
    /\ driver = "cpu_run"
    /\ cpu_run
    /\ steps' = steps + 1
    /\ driver' = IF result' \in Panics THEN "panicked" ELSE "render"
    /\ UNCHANGED << event, rendered >>

\* `if let None = self.cpu.run(&mut screen) { break }`; a panic of run
\* unwinds out of the loop.
GameRun ==
    /\ driver = "cpu_run"
    /\ cpu_run
    /\ steps' = steps + 1
    /\ driver' = IF result' = Halted THEN "exited"
                 ELSE IF result' \in Panics THEN "panicked"
                 ELSE "render"
    /\ UNCHANGED << event, rendered >>

\* `if let Some(args) = e.render_args() { app.render(&args, &screen) }`,
\* then back to the head of the loop.
AppRender ==
    /\ driver = "render"
    /\ rendered' = (event = "render")
    /\ driver' = "events_next"
    /\ UNCHANGED << event, steps >>
    /\ UNCHANGED cpu_vars

GameNext == EventsNext \/ GameRun \/ AppRender

GameSpec == GameInit /\ [][GameNext]_vars

\* ------------------------------------------------------------------------
\* Properties
\* ------------------------------------------------------------------------
DocInput == [registers |-> Some(DocRegisters), program |-> Some(DocProgram)]

SkipArms == {"skip_equal", "skip_not_equal", "skip_equal_reg", "skip_not_equal_reg"}
ControlArms == {"jump", "jump_reg", "call", "ret"} \cup SkipArms

C3_DocExampleAddsRegisters ==
    (input = DocInput /\ result = Halted /\ halts = 1) =>
        /\ registers[0] = 15
        /\ prev.arm = "ret"

\* C4: a step started at program_counter = p whose two fetch addresses are
\* in memory decodes memory[p] * 256 + memory[p + 1]; unless the instruction
\* is a jump, call, return or skip it ends with program_counter = p + 2, a
\* skip ends with p + 2 or p + 4, and a call pushes p + 2.
C4_FetchBigEndianThenAdvance ==
    [][ program_counter + 1 < MemSize =>
          /\ opcode' = At(memory, program_counter) * 256 + At(memory, program_counter + 1)
          /\ arm' \notin ControlArms => program_counter' = program_counter + 2
          /\ arm' \in SkipArms =>
                 program_counter' \in {program_counter + 2, program_counter + 4}
          /\ (arm' = "call" /\ result' = Continue) =>
                 stack'[stack_pointer] = program_counter + 2
      ]_vars

\* A call whose pushed return address is the address after the call, decoded
\* from two different bytes.
C4_Witness ==
    /\ arm = "call"
    /\ result = Continue
    /\ opcode = 8394
    /\ stack[prev.stack_pointer] = prev.program_counter + 2

\* The decode table of the specification, on the nibbles of a word.
InDecodeTable(w) ==
    LET c == w \div 4096
        x == (w \div 256) % 16
        y == (w \div 16) % 16
        d == w % 16
    IN  \/ w = 0
        \/ w = 238
        \/ c \in {1, 2, 3, 4, 6, 7, 10, 11, 12, 13}
        \/ c = 5 /\ d = 0
        \/ c = 9 /\ d = 0
        \/ c = 8 /\ d \in {0, 1, 2, 3, 4, 5, 6, 7, 14}
        \/ c = 15 /\ << y, d >> \in { <<1, 14>>, <<3, 3>>, <<5, 5>>, <<6, 5>> }

\* C5: a step that fetches a word matching no pattern of the decode table
\* ends in the fatal decode error and runs no handler.
C5_UndefinedWordIsFatal ==
    (opcode # -1 /\ ~InDecodeTable(opcode)) =>
        /\ result = TodoOpcode
        /\ arm = "todo"

\* C6: a step that fetches 0x0000 returns the halted signal and changes no
\* register, memory byte, stack slot, stack_pointer, i or pixel; a step that
\* fetches any other word and does not panic returns the continue signal.
C6_HaltSignalsAndChangesNothing ==
    [][ /\ opcode' = 0 =>
              /\ result' = Halted
              /\ registers' = registers
              /\ memory' = memory
              /\ stack' = stack
              /\ stack_pointer' = stack_pointer
              /\ i' = i
              /\ screen' = screen
        /\ (opcode' \notin {0, -1} /\ result' \notin Panics) => result' = Continue
      ]_vars

\* A halt reported to a CPU whose registers are not all zero.
C6_Witness ==
    /\ result = Halted
    /\ opcode = 0
    /\ registers[1] = 255
    /\ registers = prev.registers

\* C7: once a step has returned halted, every further step returns halted
\* and changes no register, memory byte, stack slot or pixel.
C7_HaltIsTerminal ==
    [][ result = Halted =>
          /\ result' = Halted
          /\ registers' = registers
          /\ memory' = memory
          /\ stack' = stack
          /\ screen' = screen
      ]_vars

\* C8: a call at stack_pointer = s (0..15), run after the fetch moved
\* program_counter to p, sets stack[s] = p, stack_pointer = s + 1 and
\* program_counter = nnn; a return right after it leaves program_counter = p
\* and stack_pointer = s.
C8_CallThenRetRestores ==
    [][ /\ (arm' = "call" /\ result' = Continue) =>
              /\ stack_pointer \in 0..15
              /\ stack'[stack_pointer] = program_counter + 2
              /\ stack_pointer' = stack_pointer + 1
              /\ program_counter' = opcode' % 4096
        /\ (arm = "call" /\ result = Continue /\ arm' = "ret") =>
              /\ result' = Continue
              /\ program_counter' = prev.program_counter + 2
              /\ stack_pointer' = prev.stack_pointer
      ]_vars

\* A return right after a call that was made with stack_pointer = 15.
C8_Witness ==
    /\ arm = "ret"
    /\ result = Continue
    /\ prev.arm = "call"
    /\ prev.stack_pointer = 16
    /\ stack_pointer = 15

\* C9: a call with stack_pointer = 16 ends in the "Stack overflow" panic and
\* a return with stack_pointer = 0 in the "Stack underflow" panic, neither
\* of them the continue or the halted signal, and neither changes a stack
\* slot or stack_pointer.
C9_StackMisuseIsFatal ==
    [][ /\ (arm' = "call" /\ stack_pointer = 16) =>
              /\ result' = StackOverflow
              /\ result' \notin {Continue, Halted}
              /\ stack' = stack
              /\ stack_pointer' = stack_pointer
        /\ (arm' = "ret" /\ stack_pointer = 0) =>
              /\ result' = StackUnderflow
              /\ result' \notin {Continue, Halted}
              /\ stack' = stack
              /\ stack_pointer' = stack_pointer
      ]_vars

\* A call rejected with all sixteen stack slots in use.
C9_Witness ==
    /\ arm = "call"
    /\ result = StackOverflow
    /\ stack_pointer = 16
    /\ prev.stack_pointer = 16

\* C10: in every reachable state stack_pointer is in 0..16.
C10_StackPointerInRange == stack_pointer \in 0..16

\* A full stack.
C10_Witness == stack_pointer = 16 /\ result = Continue

\* The nibbles x and y of an instruction word.
OpX(w) == (w \div 256) % 16
OpY(w) == (w \div 16) % 16

\* C11: with registers[x] = a and registers[y] = b, x in 0..14 and y in
\* 0..15, the instruction 8xy4 leaves registers[x] = (a + b) mod 256 and
\* registers[15] = 1 if a + b >= 256, else 0, and changes no other register.
C11_AddXYSumAndCarry ==
    [][ (arm' = "add_xy" /\ OpX(opcode') <= 14) =>
          LET x == OpX(opcode')
              y == OpY(opcode')
              a == registers[x]
              b == registers[y]
          IN  /\ result' = Continue
              /\ registers'[x] = (a + b) % 256
              /\ registers'[15] = IF a + b >= 256 THEN 1 ELSE 0
              /\ \A k \in 0..15 : k \notin {x, 15} => registers'[k] = registers[k]
      ]_vars

\* An addition 128 + 255 that carried.
C11_Witness ==
    /\ arm = "add_xy"
    /\ opcode = 32788
    /\ prev.registers[0] = 128
    /\ prev.registers[1] = 255
    /\ registers[0] = 127
    /\ registers[15] = 1

\* C12: with registers[x] = a and registers[y] = b, x in 0..14, the
\* instruction 8xy5 leaves registers[x] = (a - b) mod 256 and registers[15]
\* = 1 if a >= b, else 0; 8xy7 leaves registers[x] = (b - a) mod 256 and
\* registers[15] = 1 if b >= a, else 0.
C12_SubtractAndNoBorrow ==
    [][ /\ (arm' = "sub_xy" /\ OpX(opcode') <= 14) =>
              LET x == OpX(opcode')
                  a == registers[x]
                  b == registers[OpY(opcode')]
              IN  /\ result' = Continue
                  /\ registers'[x] = (a - b) % 256
                  /\ registers'[15] = IF a >= b THEN 1 ELSE 0
        /\ (arm' = "sub_n" /\ OpX(opcode') <= 14) =>
              LET x == OpX(opcode')
                  a == registers[x]
                  b == registers[OpY(opcode')]
              IN  /\ result' = Continue
                  /\ registers'[x] = (b - a) % 256
                  /\ registers'[15] = IF b >= a THEN 1 ELSE 0
      ]_vars

\* A subtraction 128 - 255 that borrowed.
C12_Witness ==
    /\ arm = "sub_xy"
    /\ opcode = 32789
    /\ prev.registers[0] = 128
    /\ prev.registers[1] = 255
    /\ registers[0] = 129
    /\ registers[15] = 0

\* C13: with registers[x] = v, for every x in 0..15, the instruction 8x06
\* leaves registers[15] = the least-significant bit of v and, for x # 15,
\* registers[x] = v div 2; 8x0E leaves registers[15] = the most-significant
\* bit of v (0 or 1) and, for x # 15, registers[x] = (2 * v) mod 256.
C13_ShiftsSetFlagToShiftedOutBit ==
    [][ /\ arm' = "shift_right" =>
              LET x == OpX(opcode')
                  v == registers[x]
              IN  /\ registers'[15] = v % 2
                  /\ x # 15 => registers'[x] = v \div 2
        /\ arm' = "shift_left" =>
              LET x == OpX(opcode')
                  v == registers[x]
              IN  /\ registers'[15] = v \div 128
                  /\ x # 15 => registers'[x] = (2 * v) % 256
      ]_vars

\* The arms whose handlers write the flag register.
FlagArms == {"add_xy", "sub_xy", "sub_n", "shift_right", "shift_left", "draw"}

\* C14: after any instruction that writes the flag (8xy4, 8xy5, 8xy7, 8xy6,
\* 8xyE, Dxyn), for every x and y in 0..15, x = 15 included, register 15
\* holds 0 or 1.
C14_FlagIsZeroOrOne ==
    (arm \in FlagArms /\ result = Continue) => registers[15] \in {0, 1}

\* C15: with registers[x] = v, the instruction 7xnn leaves registers[x] =
\* (v + nn) mod 256, also when v + nn >= 256, never ends in a fatal outcome,
\* and for x # 15 leaves register 15 unchanged.
C15_AddImmediateWraps ==
    [][ arm' = "add" =>
          LET x == OpX(opcode')
              v == registers[x]
              nn == opcode' % 256
          IN  /\ result' = Continue
              /\ registers'[x] = (v + nn) % 256
              /\ x # 15 => registers'[15] = registers[15]
      ]_vars

\* C16: a skip fetched at program_counter = p ends with program_counter =
\* p + 4 when its condition holds and p + 2 otherwise; the condition of 3xnn
\* is registers[x] = nn, of 4xnn registers[x] # nn, of 5xy0 registers[x] =
\* registers[y], of 9xy0 registers[x] # registers[y].  No skip changes a
\* register, a memory byte, a stack slot, stack_pointer or i.
C16_SkipsMoveOnlyProgramCounter ==
    [][ LET x == OpX(opcode')
            y == OpY(opcode')
            nn == opcode' % 256
            p == program_counter
            taken(cond) == program_counter' = IF cond THEN p + 4 ELSE p + 2
        IN  /\ arm' = "skip_equal" => taken(registers[x] = nn)
            /\ arm' = "skip_not_equal" => taken(registers[x] # nn)
            /\ (arm' = "skip_equal_reg" /\ opcode' % 16 = 0) =>
                   taken(registers[x] = registers[y])
            /\ arm' = "skip_not_equal_reg" => taken(registers[x] # registers[y])
            /\ arm' \in SkipArms =>
                   /\ result' = Continue
                   /\ registers' = registers
                   /\ memory' = memory
                   /\ stack' = stack
                   /\ stack_pointer' = stack_pointer
                   /\ i' = i
      ]_vars

\* A 4xnn that skipped: registers[0] = 0 is not 0x80.
C16_Witness ==
    /\ arm = "skip_not_equal"
    /\ opcode = 16512
    /\ prev.registers[0] = 0
    /\ program_counter = prev.program_counter + 4
    /\ registers = prev.registers

\* Whether two memories agree at every address outside first..last.
SameOutside(m1, m2, first, last) ==
    /\ SubSeq(m1, 1, first) = SubSeq(m2, 1, first)
    /\ SubSeq(m1, last + 2, MemSize) = SubSeq(m2, last + 2, MemSize)

\* C17: with registers[x] = v and the addresses i .. i+2 in memory, the
\* instruction Fx33 stores h, t, o at memory[i], memory[i+1], memory[i+2],
\* each in 0..9 and with 100*h + 10*t + o = v, and changes no register, not
\* i and no other memory byte.
C17_BcdStoresDecimalDigits ==
    [][ (arm' = "bcd" /\ i + 2 < MemSize) =>
          LET v == registers[OpX(opcode')]
              h == At(memory', i)
              t == At(memory', i + 1)
              o == At(memory', i + 2)
          IN  /\ result' = Continue
              /\ {h, t, o} \subseteq 0..9
              /\ 100 * h + 10 * t + o = v
              /\ registers' = registers
              /\ i' = i
              /\ SameOutside(memory', memory, i, i + 2)
      ]_vars

\* The digits 2, 5, 5 of the value 255 stored at addresses 0..2.
C17_Witness ==
    /\ arm = "bcd"
    /\ result = Continue
    /\ registers[1] = 255
    /\ i = 0
    /\ At(memory, 0) = 2
    /\ At(memory, 1) = 5
    /\ At(memory, 2) = 5

\* C18: for x in 0..15 and i + x <= 4095, Fx55 sets memory[i+k] =
\* registers[k] for k in 0..x and changes no register, not i and no memory
\* byte outside i..i+x; Fx65 sets registers[k] = memory[i+k] for k in 0..x
\* and changes no register above x, not i and no memory byte; a dump
\* followed at once by a load with the same x and i leaves every register
\* as it was before the dump.
C18_DumpAndLoadAreInverse ==
    [][ LET x == OpX(opcode') IN
        /\ (arm' = "reg_dump" /\ i + x <= 4095) =>
              /\ result' = Continue
              /\ \A k \in 0..x : At(memory', i + k) = registers[k]
              /\ registers' = registers
              /\ i' = i
              /\ SameOutside(memory', memory, i, i + x)
        /\ (arm' = "reg_load" /\ i + x <= 4095) =>
              /\ result' = Continue
              /\ \A k \in 0..x : registers'[k] = At(memory, i + k)
              /\ \A k \in 0..15 : k > x => registers'[k] = registers[k]
              /\ i' = i
              /\ memory' = memory
        /\ (arm = "reg_dump" /\ result = Continue /\ arm' = "reg_load"
              /\ x = OpX(opcode) /\ i = prev.i /\ i + x <= 4095) =>
              registers' = prev.registers
      ]_vars

\* All sixteen registers dumped to the last sixteen bytes of memory and
\* loaded back.
C18_Witness ==
    /\ arm = "reg_load"
    /\ result = Continue
    /\ prev.arm = "reg_dump"
    /\ opcode = 65381
    /\ i = 4080
    /\ registers[0] = 128
    /\ registers[15] = 7
    /\ At(memory, 4095) = 7

\* C19: with registers[x] = v, the instruction Fx1E leaves i = (i + v) mod
\* 65536, a wrapping 16-bit addition that never ends in a fatal outcome, and
\* changes no register and no memory byte.
C19_AddToIndexWraps ==
    [][ arm' = "set_i_reg" =>
          LET v == registers[OpX(opcode')]
          IN  /\ result' = Continue
              /\ i' = (i + v) % 65536
              /\ registers' = registers
              /\ memory' = memory
      ]_vars

\* Bit n of a byte, bit 7 the most significant.
Bit(b, n) == (b \div (2 ^ n)) % 2

\* C20: for every sprite byte b read from memory[i + r] and every column k
\* in 0..7, a draw that completes toggles the pixel at row registers[y] + r,
\* column registers[x] + k exactly when bit 7 - k of b is set, whatever the
\* value of b, its top bit clear or not: every sprite row covers 8 columns.
C20_DrawMapsBitsToColumns ==
    [][ (arm' = "draw" /\ result' = Continue) =>
          LET x_coord == registers[OpX(opcode')]
              y_coord == registers[OpY(opcode')]
              d == opcode' % 16
          IN  \A r \in 0..(d - 1) : \A k \in 0..7 :
                  LET b == At(memory, i + r)
                      row == y_coord + r
                      col == x_coord + k
                  IN  (row < ScreenRows /\ col < ScreenCols) =>
                          ((screen'[row][col] # screen[row][col]) <=> (Bit(b, 7 - k) = 1))
      ]_vars

\* Whether the d-row, 8-column rectangle at (x_coord, y_coord) is on the
\* display and its d sprite bytes at address a are in memory.
InBounds(x_coord, y_coord, d, a) ==
    /\ x_coord + 7 < ScreenCols
    /\ y_coord + d - 1 < ScreenRows
    /\ a + d - 1 < MemSize

\* C21: for every in-bounds draw Dxyd, every target pixel becomes old pixel
\* XOR sprite bit (bit 7 - k of row byte r at column offset k), pixels
\* outside the sprite rectangle are unchanged, register 15 ends as 1 if some
\* pixel was lit before and unlit after the draw and as 0 otherwise, and i
\* and memory are unchanged.
C21_DrawXorsSpriteOntoDisplay ==
    [][ LET x_coord == registers[OpX(opcode')]
            y_coord == registers[OpY(opcode')]
            d == opcode' % 16
        IN  (arm' = "draw" /\ InBounds(x_coord, y_coord, d, i)) =>
              /\ result' = Continue
              /\ \A row \in 0..(ScreenRows - 1) : \A col \in 0..(ScreenCols - 1) :
                     IF /\ row \in y_coord..(y_coord + d - 1)
                        /\ col \in x_coord..(x_coord + 7)
                     THEN screen'[row][col] =
                              (screen[row][col] #
                                  (Bit(At(memory, i + (row - y_coord)), 7 - (col - x_coord)) = 1))
                     ELSE screen'[row][col] = screen[row][col]
              /\ registers'[15] =
                     IF \E row \in 0..(ScreenRows - 1) : \E col \in 0..(ScreenCols - 1) :
                            screen[row][col] /\ ~screen'[row][col]
                     THEN 1 ELSE 0
              /\ i' = i
              /\ memory' = memory
      ]_vars

\* C22: a draw repeated at once with the same word, x and y not 15, i
\* unchanged, restores the display to its content before the first of the
\* two; a draw on the all-clear display leaves register 15 = 0, and when
\* its sprite has a set bit the repeated draw leaves register 15 = 1.
C22_DrawTwiceRestoresDisplay ==
    [][ LET d == opcode' % 16 IN
        /\ (arm' = "draw" /\ result' = Continue /\ screen = ClearScreen) =>
              registers'[15] = 0
        /\ (arm = "draw" /\ result = Continue /\ arm' = "draw" /\ opcode' = opcode
              /\ OpX(opcode') # 15 /\ OpY(opcode') # 15 /\ i = prev.i) =>
              /\ result' = Continue
              /\ screen' = prev.screen
              /\ (prev.screen = ClearScreen /\ \E r \in 0..(d - 1) : At(memory, i + r) # 0) =>
                     registers'[15] = 1
      ]_vars

\* The second of two draws of glyph 0 over glyph 1: glyph 0 is gone, glyph 1
\* is back, and the flag reports the pixels that went out.
C22_Witness ==
    /\ arm = "draw"
    /\ result = Continue
    /\ prev.arm = "draw"
    /\ program_counter = 214
    /\ screen[0][2]
    /\ ~screen[0][0]
    /\ prev.screen[0][0]
    /\ ~prev.screen[0][2]
    /\ registers[15] = 1

\* C23: for every x and nn, Cxnn writes only register 0: registers[0]
\* becomes nn AND r for some random byte r that is never 0 (so with nn =
\* 0xFF register 0 ends nonzero); every other register, register x with
\* x # 0 included, memory, i, stack and stack_pointer are unchanged.
C23_RandWritesOnlyRegisterZero ==
    [][ arm' = "rand" =>
          LET nn == opcode' % 256 IN
          /\ result' = Continue
          /\ \E r \in 1..255 : registers'[0] = BitAnd(nn, r)
          /\ nn = 255 => registers'[0] # 0
          /\ \A k \in 1..15 : registers'[k] = registers[k]
          /\ memory' = memory
          /\ i' = i
          /\ stack' = stack
          /\ stack_pointer' = stack_pointer
      ]_vars

\* A C2FF that replaced register 0 = 128 by 0x55 and left register 2 = 3.
C23_Witness ==
    /\ arm = "rand"
    /\ opcode = 49919
    /\ prev.registers[0] = 128
    /\ registers[0] = 85
    /\ registers[2] = 3

\* C24: a call (2nnn) and a return (00EE) leave i, every register and every
\* memory byte unchanged; of the stack a call changes the one slot at
\* stack_pointer at most, and a return changes no slot.
C24_CallAndRetKeepDataState ==
    [][ arm' \in {"call", "ret"} =>
          /\ i' = i
          /\ registers' = registers
          /\ memory' = memory
          /\ arm' = "call" =>
                 \A k \in 0..(StackSize - 1) : k # stack_pointer => stack'[k] = stack[k]
          /\ arm' = "ret" => stack' = stack
      ]_vars

\* A return to address 204 with i = 0x123 and the registers as built.
C24_Witness ==
    /\ arm = "ret"
    /\ result = Continue
    /\ prev.arm = "call"
    /\ program_counter = 204
    /\ stack_pointer = 0
    /\ stack[0] = 204
    /\ i = 291
    /\ registers[0] = 128
    /\ registers[15] = 7

\* C25: build() neither relocates nor alters memory and starts at address
\* 0: the built CPU has program_counter = 0, stack_pointer = 0, an all-zero
\* stack, memory equal to the supplied image byte for byte (all zero without
\* an image) and the supplied registers (all zero without any).
C25_BuildKeepsImageAndStartsAtZero ==
    result = Built =>
        /\ program_counter = 0
        /\ stack_pointer = 0
        /\ stack = Zeros(StackSize)
        /\ memory = unwrap_or(Builder(input).memory, ZeroMemory)
        /\ registers = unwrap_or(Builder(input).registers, Zeros(NumRegisters))

\* Whether the last step ended in the panic of an out-of-range memory
\* index: in the fetch, in dump, load or bcd, or in the sprite read of draw.
MemoryIndexFault ==
    /\ result = IndexPanic
    /\ \/ arm \in {"fetch", "reg_dump", "reg_load", "bcd"}
       \/ arm = "draw" /\ prev.i + (opcode % 16) - 1 >= MemSize

\* C26: in every reachable state the addresses the interpreter accesses,
\* program_counter and program_counter + 1 in the fetch and i + k in dump,
\* load, bcd and draw, lie in 0..4095: no step faults on an out-of-range
\* memory index.
C26_NoMemoryIndexFault == ~MemoryIndexFault

\* C27: a draw whose sprite rectangle (d rows, 8 columns) would reach past
\* column 63 or row 31 is rejected as a whole: it changes no pixel of the
\* display and not register 15.
C27_OutOfBoundsDrawChangesNothing ==
    [][ LET x_coord == registers[OpX(opcode')]
            y_coord == registers[OpY(opcode')]
            d == opcode' % 16
        IN  (/\ arm' = "draw"
             /\ d > 0
             /\ (x_coord + 7 >= ScreenCols \/ y_coord + d - 1 >= ScreenRows)) =>
                /\ result' # Continue
                /\ screen' = screen
                /\ registers'[15] = registers[15]
      ]_vars

DemoInput == [registers |-> None, program |-> Some(DemoProgram)]

\* C28: the demo program of main.rs never halts and never faults: no step
\* of it returns the halted signal or ends in a panic.
C28_DemoNeverHaltsNorFaults ==
    input = DemoInput => (result # Halted /\ result \notin Panics)

\* C29: the loop of Game::run calls cpu.run exactly once per window event
\* and before it renders for that event; no step starts from a state whose
\* last call of run returned halted, and the step that returns halted
\* leaves the loop without a frame rendered for its event.
C29_DriverStepsOncePerEventAndExitsOnHalt ==
    [][ /\ result # Halted
        /\ steps' <= 1
        /\ driver' = "events_next" => steps' = 1
        /\ rendered' => steps' = 1
        /\ steps' = steps + 1 => (~rendered /\ ~rendered')
        /\ result' = Halted => (driver' = "exited" /\ ~rendered' /\ halts' = 1)
      ]_vars

\* The loop left on a halt that answered a render event, after earlier
\* events were stepped and rendered.
C29_Witness ==
    /\ driver = "exited"
    /\ result = Halted
    /\ event = "render"
    /\ steps = 1
    /\ ~rendered
    /\ prev.result = Continue
    /\ prev.arm = "ret"

\* C30: calls nest last-in first-out: stack_pointer is the number of calls
\* executed minus the number of returns executed, stack[0 .. stack_pointer
\* - 1] holds the addresses after the pending calls in call order, and a
\* return resumes at the address after the most recent call not yet
\* returned from, at every depth up to 16.
C30_CallsNestLastInFirstOut ==
    [][ /\ stack_pointer' = Len(pending')
        /\ \A k \in 1..Len(pending') : stack'[k - 1] = pending'[k]
        /\ (arm' = "ret" /\ result' = Continue) =>
              /\ Len(pending) > 0
              /\ program_counter' = pending[Len(pending)]
      ]_vars

\* A return from depth 16 to the address after the sixteenth call, the
\* fifteen older calls still pending.
C30_Witness ==
    /\ arm = "ret"
    /\ result = Continue
    /\ prev.stack_pointer = 16
    /\ Len(pending) = 15
    /\ program_counter = 208
    /\ pending[15] = 206
====
